---- MODULE Spec2Model ----
(***************************************************************************)
(* Registration / dispatch framework of parcus: one Registry instance      *)
(* (commands, datasets or models), its id -> Entry dictionary, its lazy    *)
(* discovery sweep over the modules of its package, and the lookup,        *)
(* dispatch and load operations built on it.                               *)
(***************************************************************************)
EXTENDS Integers, Sequences, FiniteSets, TLC

\* ------------------------------------------------------------------ bounds
MaxModules == 2      \* modules in a registry's package
MaxSweeps  == 2      \* discovery sweeps started per registry
MaxStoreEntries == 3 \* entries created over the three registries together
MaxCalls   == 3      \* calls the threads make together

\* ------------------------------------------------------------- vocabulary
None    == "None"
Omitted == "Omitted"

Registries == {"commands", "datasets", "models"}
IdSeq      == <<"a", "b">>        \* entry ids, in the order modules use them
Ids        == { IdSeq[i] : i \in DOMAIN IdSeq }
Callables  == {"f", "g"}          \* functions / classes used as payload
Configs    == {"c1", "c2"}
ArgVals    == {"a1", "a2"}        \* forwarded (*args, **kwargs)
NoTags     == <<>>
Tags       == {"t"}               \* taxonomical keywords

\* What a payload does when it is called: f returns, g raises its own error.
CallableRaises(fn) == IF fn = "g" THEN "Error_g" ELSE None

\* Keyword arguments of an explicit register(entry_id, **kwargs) call.
KwargSets ==
    [config : Configs \cup {None, Omitted},
     payload: Callables \cup {None, Omitted},
     tags   : {Omitted, "t"}]

\* The calls made: three well-formed ones, one that leaves the payload keyword
\* out and one that passes tags.
ExplicitKwargs ==
    { kw \in KwargSets :
        \/ kw.tags = Omitted /\ <<kw.config, kw.payload>> \in
               { <<"c1", "f">>, <<"c2", "g">>, <<None, None>>, <<"c1", Omitted>> }
        \/ kw.tags = "t" /\ kw.config = "c1" /\ kw.payload = "f" }

\* ------------------------------------------------------------------ state
VARIABLES
    self,          \* Registry._id_ of the registry instance under study
    entries,       \* [registry -> Registry._entries_], a dict in insertion order
    loaded,        \* [registry -> Registry._loaded_]
    namespace,     \* [registry -> the package the sweep walks] (environment)
    sysModules,    \* sys.modules: {<<registry, module>>} imported successfully
    importCount,   \* [registry -> [module -> times its body was executed]]
    sweeps,        \* [registry -> number of _load_all_ calls started]
    nextOid,       \* identity of the next Entry object to be constructed
    last,          \* outcome of the most recent operation
    pc             \* [thread -> the call it is in and the statement it is at]

vars == <<self, entries, loaded, namespace, sysModules, importCount, sweeps,
          nextOid, last, pc>>

\* ------------------------------------------------------ python dict (ordered)
Keys(d)        == { d[i].key : i \in DOMAIN d }
Contains(d, k) == k \in Keys(d)
IndexOf(d, k)  == CHOOSE i \in DOMAIN d : d[i].key = k
GetItem(d, k)  == d[IndexOf(d, k)].entry
SetItem(d, k, e) ==
    IF Contains(d, k)
    THEN [d EXCEPT ![IndexOf(d, k)] = [key |-> k, entry |-> e]]
    ELSE Append(d, [key |-> k, entry |-> e])

NoEntry == [oid |-> 0, id |-> "", config |-> None, tags |-> NoTags, payload |-> None]
NoValue == [fn |-> None, args |-> None]

\* ------------------------------------------------------------------ entries
\* An Entry that does not keep the id it is given.
Entry_Anonymous(oid, id, config) ==
    [oid |-> oid, id |-> "", config |-> config, tags |-> NoTags, payload |-> None]

\* Entry.__init__: id, config and tags (the default, shared, empty list: no
\* subclass forwards tags).
Entry(oid, id, config) ==
    [oid |-> oid, id |-> id, config |-> config, tags |-> NoTags, payload |-> None]

\* CommandEntry.__init__(id, config, entry_point)
CommandEntry(oid, id, config, entry_point) ==
    [Entry(oid, id, config) EXCEPT !.payload = entry_point]

\* DatasetEntry.__init__(id, cls, config)
DatasetEntry(oid, id, cls, config) ==
    [Entry(oid, id, config) EXCEPT !.payload = cls]

\* ModelEntry.__init__(id, cls, config)
ModelEntry(oid, id, cls, config) ==
    [Entry(oid, id, config) EXCEPT !.payload = cls]

\* Python's binding of **kwargs to the entry constructor's parameters: config
\* and the payload keyword are required, no other keyword is accepted.
BindsKwargs(kw) ==
    kw.tags = Omitted /\ kw.config # Omitted /\ kw.payload # Omitted

\* <Kind>Registry._create_entry_(id = entry_id, **kwargs)
CreateEntry(r, id, kw, oid) ==
    IF ~BindsKwargs(kw)
    THEN [raised |-> "TypeError", entry |-> NoEntry]
    ELSE [raised |-> None,
          entry  |-> CASE r = "commands" -> CommandEntry(oid, id, kw.config, kw.payload)
                       [] r = "datasets" -> DatasetEntry(oid, id, kw.payload, kw.config)
                       [] r = "models"   -> ModelEntry(oid, id, kw.payload, kw.config)]

\* The last statement of register: the entry c that _create_entry_ built is
\* stored under id, unless building it raised.
Insert(d, id, c, oid) ==
    IF c.raised # None
    THEN [entries |-> d, raised |-> c.raised, nextOid |-> oid]
    ELSE [entries |-> SetItem(d, id, c.entry), raised |-> None, nextOid |-> oid + 1]

\* register without the duplicate check: the new entry replaces the old one.
RegisterResult_Overwrite(d, r, id, kw, oid) ==
    Insert(d, id, CreateEntry(r, id, kw, oid), oid)

\* Registry.register(entry_id, **kwargs) on dictionary d.
RegisterResult(d, r, id, kw, oid) ==
    IF Contains(d, id)
    THEN [entries |-> d, raised |-> "DuplicateEntryError", nextOid |-> oid]
    ELSE Insert(d, id, CreateEntry(r, id, kw, oid), oid)

\* Line 138 made one with the duplicate check, as under a lock.
StoreEntry_Checked(d, r, id, kw, oid) == RegisterResult(d, r, id, kw, oid)

\* Line 138 of register on its own: the entry is built and assigned to its
\* key, whatever the dictionary holds by then.
StoreEntry(d, r, id, kw, oid) == Insert(d, id, CreateEntry(r, id, kw, oid), oid)

\* ---------------------------------------------------------------- discovery
\* A module of the package is the sequence of its top-level statements:
\* "reg" is a definition under @register_command / _dataset / _model, the
\* other two are statements that raise when the module is imported.
ModuleBodies ==
    { <<"reg">>, <<"ImportError">>, <<"reg", "ImportError">>,
      <<"Exception">>, <<"reg", "Exception">> }

\* A module is a plain module or a package (ispkg).
ModuleShapes ==
    { m \in [body : ModuleBodies, ispkg : BOOLEAN] :
        m.ispkg => m.body = <<"reg", "ImportError">> }

OkModule == [body |-> <<"reg">>, ispkg |-> FALSE]

SeqsUpTo(S, n) == UNION { [1..m -> S] : m \in 0..n }

\* The packages considered: up to MaxModules modules of which at most one
\* fails at import, or a root package that fails itself.
Namespaces ==
    { [root |-> None, modules |-> ms] :
        ms \in { q \in SeqsUpTo(ModuleShapes, MaxModules) :
                    Cardinality({ i \in DOMAIN q : q[i] # OkModule }) <= 1 } }
    \cup { [root |-> e, modules |-> <<>>] : e \in {"ImportError", "Exception"} }

\* The id, payload and config the decorator in module k passes to register.
ModuleId(k)      == IdSeq[((k - 1) % Len(IdSeq)) + 1]
ModulePayload(k) == IF k % 2 = 1 THEN "f" ELSE "g"
ModuleConfig(k)  == IF k % 2 = 1 THEN "c1" ELSE "c2"
DecoratorKwargs(k) ==
    [config |-> ModuleConfig(k), payload |-> ModulePayload(k), tags |-> Omitted]

\* The interpreter state st after the decorator's register call returned rr.
Decorated(st, rr) ==
    [st EXCEPT !.entries = rr.entries, !.nextOid = rr.nextOid, !.raised = rr.raised]

\* decorators.register_command / register_dataset / register_model applied in
\* module k: calls register on the registry, whose error, if any, propagates.
Decorator(r, k, st) ==
    Decorated(st, RegisterResult(st.entries, r, ModuleId(k), DecoratorKwargs(k),
                                 st.nextOid))

\* A top-level statement "use" of a module: a call of list_entries() on the
\* registry of the module's own package, which starts with _ensure_loaded_;
\* the list it returns is dropped.
RECURSIVE EnsureLoaded(_, _, _)
ModuleUse(r, st) == EnsureLoaded(r, namespace[r], st)

\* Execution of the statements of module k from statement i on; ExecNext
\* goes on after a statement unless it raised.
RECURSIVE ExecBody(_, _, _, _, _)
RECURSIVE ExecNext(_, _, _, _, _)
ExecBody(r, k, body, i, st) ==
    IF i > Len(body) THEN [st EXCEPT !.raised = None]
    ELSE IF body[i] = "reg"
         THEN ExecNext(r, k, body, i, Decorator(r, k, st))
         ELSE IF body[i] = "use"
              THEN ExecNext(r, k, body, i, ModuleUse(r, st))
              ELSE [st EXCEPT !.raised = body[i]]

ExecNext(r, k, body, i, d) ==
    IF d.raised # None THEN d ELSE ExecBody(r, k, body, i + 1, d)

\* A module whose body ran to its end stays in sys.modules; one whose body
\* raised is taken out again.
Imported(r, k, x) ==
    IF x.raised = None THEN [x EXCEPT !.sysModules = @ \cup {<<r, k>>}]
                       ELSE [x EXCEPT !.sysModules = @ \ {<<r, k>>}]

\* importlib.import_module(name): a module in sys.modules is not executed
\* again; a module is entered in sys.modules before its body is executed.
ImportModule(r, k, m, st) ==
    IF <<r, k>> \in st.sysModules THEN [st EXCEPT !.raised = None]
    ELSE Imported(r, k, ExecBody(r, k, m.body, 1,
                                 [st EXCEPT !.importCount[k] = @ + 1,
                                            !.sysModules = @ \cup {<<r, k>>}]))

\* An exception the handlers `except ImportError` catch.
IsImportError(exc) == exc = "ImportError"

\* pkgutil.walk_packages after it has yielded module k: a package is imported
\* by the walker itself and every error goes to onerror = lambda x: None.
WalkerImport(r, k, m, st) ==
    IF m.ispkg THEN [ImportModule(r, k, m, st) EXCEPT !.raised = None] ELSE st

\* The for loop of Registry._import_all_modules_ from module k on; WalkNext
\* is the loop after import_module returned or raised (state b): an
\* ImportError is logged, anything else leaves the loop.
RECURSIVE WalkPackages(_, _, _, _)
RECURSIVE WalkNext(_, _, _, _)
WalkPackages(r, mods, k, st) ==
    IF k > Len(mods) THEN [st EXCEPT !.raised = None]
    ELSE WalkNext(r, mods, k,
                  ImportModule(r, k, mods[k], [st EXCEPT !.visited = @ \cup {k}]))

WalkNext(r, mods, k, b) ==
    IF b.raised # None /\ ~IsImportError(b.raised)
    THEN b
    ELSE WalkPackages(r, mods, k + 1,
                      WalkerImport(r, k, mods[k], [b EXCEPT !.raised = None]))

\* _import_all_modules_ without the handler around the root package's import.
ImportAllModules_Strict(r, ns, st) ==
    IF ns.root # None THEN [st EXCEPT !.raised = ns.root]
    ELSE WalkPackages(r, ns.modules, 1, st)

\* Registry._import_all_modules_
ImportAllModules(r, ns, st) ==
    IF ns.root # None
    THEN IF IsImportError(ns.root) THEN [st EXCEPT !.raised = None]
                                   ELSE [st EXCEPT !.raised = ns.root]
    ELSE WalkPackages(r, ns.modules, 1, st)

\* The last statement of _load_all_, reached when the imports did not raise.
MarkLoaded(w) ==
    IF w.raised # None THEN w ELSE [w EXCEPT !.loaded = TRUE]

\* Registry._load_all_
LoadAll(r, ns, st) ==
    MarkLoaded(ImportAllModules(r, ns, [st EXCEPT !.sweeps = @ + 1, !.swept = TRUE]))

\* _ensure_loaded_ that sweeps on every call, clearing the flag while it does.
EnsureLoaded_Always(r, ns, st) == LoadAll(r, ns, [st EXCEPT !.loaded = FALSE])

\* The test of _ensure_loaded_ that also looks whether a sweep is under way.
ShouldLoad_Guarded(isLoaded, sweeping) == ~isLoaded /\ ~sweeping

\* The test of _ensure_loaded_, `not self._loaded_`: whether another caller's
\* sweep is under way (sweeping) is not looked at.
ShouldLoad(isLoaded, sweeping) == ~isLoaded

\* Registry._ensure_loaded_
EnsureLoaded(r, ns, st) ==
    IF ~st.loaded THEN LoadAll(r, ns, st) ELSE [st EXCEPT !.raised = None]

\* --------------------------------------------------------------- operations
\* The registry's fields and the interpreter state an operation works on.
Bundle(r) ==
    [entries |-> entries[r], loaded |-> loaded[r], sysModules |-> sysModules,
     importCount |-> importCount[r], sweeps |-> sweeps[r], nextOid |-> nextOid,
     raised |-> None, swept |-> FALSE, visited |-> {}]

\* What an operation hands back: the state it leaves, the exception it raises
\* (None: it returns), its return value and the payload calls it made.
Result(st, raised, retEntry, retVal, retList, calls) ==
    [st |-> st, raised |-> raised, retEntry |-> retEntry, retVal |-> retVal,
     retList |-> retList, calls |-> calls]

\* get_entry after _ensure_loaded_ left state e.
Lookup(id, e) ==
    IF e.raised # None
    THEN Result(e, e.raised, NoEntry, NoValue, <<>>, <<>>)
    ELSE IF ~Contains(e.entries, id)
    THEN Result(e, "EntryNotFoundError", NoEntry, NoValue, <<>>, <<>>)
    ELSE Result(e, None, GetItem(e.entries, id), NoValue, <<>>, <<>>)

\* get_entry that looks the id up without loading the registry first.
GetEntry_Unloaded(r, ns, id, st) == Lookup(id, st)

\* Registry.get_entry(entry_id)
GetEntry(r, ns, id, st) == Lookup(id, EnsureLoaded(r, ns, st))

\* A call payload(*args, **kwargs) of a registered function or class.
Invoke(st, fn, a) ==
    IF CallableRaises(fn) # None
    THEN Result(st, CallableRaises(fn), NoEntry, NoValue, <<>>, <<[fn |-> fn, args |-> a]>>)
    ELSE Result(st, None, NoEntry, [fn |-> fn, args |-> a], <<>>,
                <<[fn |-> fn, args |-> a]>>)

\* dispatch after get_entry returned or raised (g).
DispatchEntry(g, a) ==
    IF g.raised # None THEN g
    ELSE IF g.retEntry.payload = None
    THEN Result(g.st, "EntryPointNotConfiguredError", NoEntry, NoValue, <<>>, <<>>)
    ELSE Invoke(g.st, g.retEntry.payload, a)

\* CommandRegistry.dispatch(command_id, *args, **kwargs)
Dispatch(r, ns, id, a, st) == DispatchEntry(GetEntry(r, ns, id, st), a)

\* entry.cls(*args, **kwargs) after get_entry returned or raised (g); calling
\* a cls that is None is Python's TypeError.
Construct(g, a) ==
    IF g.raised # None THEN g
    ELSE IF g.retEntry.payload = None
    THEN Result(g.st, "TypeError", NoEntry, NoValue, <<>>, <<>>)
    ELSE Invoke(g.st, g.retEntry.payload, a)

\* DatasetRegistry.load_dataset(dataset_id, *args, **kwargs)
LoadDataset(r, ns, id, a, st) == Construct(GetEntry(r, ns, id, st), a)

\* ModelRegistry.load_model(model_id, *args, **kwargs)
LoadModel(r, ns, id, a, st) == Construct(GetEntry(r, ns, id, st), a)

\* Entry.has_tag(tag)
HasTag(entry, tag) == \E j \in DOMAIN entry.tags : entry.tags[j] = tag

\* all(tag in entry.tags for tag in filter_by)
HasAllTags(entry, filter) ==
    \A i \in DOMAIN filter : \E j \in DOMAIN entry.tags : entry.tags[j] = filter[i]

RECURSIVE FilterIds(_, _)
FilterIds(d, filter) ==
    IF d = <<>> THEN <<>>
    ELSE (IF HasAllTags(Head(d).entry, filter) THEN <<Head(d).key>> ELSE <<>>)
         \o FilterIds(Tail(d), filter)

\* list_entries that hands the ids back last registered first.
Listing_Reversed(filter, e) ==
    IF e.raised # None
    THEN Result(e, e.raised, NoEntry, NoValue, <<>>, <<>>)
    ELSE Result(e, None, NoEntry, NoValue,
                [i \in DOMAIN e.entries |-> e.entries[Len(e.entries) + 1 - i].key], <<>>)

\* list_entries after _ensure_loaded_ left state e.
Listing(filter, e) ==
    IF e.raised # None
    THEN Result(e, e.raised, NoEntry, NoValue, <<>>, <<>>)
    ELSE IF Len(filter) = 0
    THEN Result(e, None, NoEntry, NoValue, [i \in DOMAIN e.entries |-> e.entries[i].key], <<>>)
    ELSE Result(e, None, NoEntry, NoValue, FilterIds(e.entries, filter), <<>>)

\* Registry.list_entries(filter_by)
ListEntries(r, ns, filter, st) == Listing(filter, EnsureLoaded(r, ns, st))

\* config.parser_id, the name Config.register gives the sub-command: each
\* config class names its parser after the command it configures.
ParserId(config) == IF config = "c1" THEN IdSeq[1] ELSE IdSeq[2]

\* Config.register(cls, subparser): argparse's add_parser raises on a parser
\* name the group (names) already has.
ConfigRegister(config, names) ==
    IF ParserId(config) \in names
    THEN [raised |-> "ArgumentError", names |-> names,
          delegated |-> <<[fn |-> "Config.register", args |-> config]>>]
    ELSE [raised |-> None, names |-> names \cup {ParserId(config)},
          delegated |-> <<[fn |-> "Config.register", args |-> config]>>]

\* register_configuration that passes over an entry without a config.
RegisterConfiguration_Lenient(entry, names) ==
    IF entry.config = None
    THEN [raised |-> None, names |-> names, delegated |-> <<>>]
    ELSE ConfigRegister(entry.config, names)

\* Entry.register_configuration(subparser) on a group with parsers names.
RegisterConfiguration(entry, names) ==
    IF entry.config = None
    THEN [raised |-> "ParserNotConfiguredError", names |-> names, delegated |-> <<>>]
    ELSE ConfigRegister(entry.config, names)

\* The loop of register_configurations over the entries of d from position i
\* on; EachNext is the loop after register_configuration on entry i returned
\* or raised (c).  attached: the ids whose call returned; called: the ids it
\* was called on.
RECURSIVE RegisterEach(_, _, _, _)
RECURSIVE EachNext(_, _, _, _)
RegisterEach(d, i, names, done) ==
    IF i > Len(d)
    THEN [raised |-> None, attached |-> done, called |-> done, names |-> names]
    ELSE EachNext(d, i, done, RegisterConfiguration(d[i].entry, names))

\* The loop undoing, when a call raises, what the earlier calls attached.
EachNext_Rollback(d, i, done, c) ==
    IF c.raised # None
    THEN [raised |-> c.raised, attached |-> <<>>,
          called |-> Append(done, d[i].entry.id), names |-> {}]
    ELSE RegisterEach(d, i + 1, c.names, Append(done, d[i].entry.id))

EachNext(d, i, done, c) ==
    IF c.raised # None
    THEN [raised |-> c.raised, attached |-> done,
          called |-> Append(done, d[i].entry.id), names |-> c.names]
    ELSE RegisterEach(d, i + 1, c.names, Append(done, d[i].entry.id))

\* The outcome c of the loop of register_configurations as a result.
Configured(e, c) ==
    Result(e, c.raised, NoEntry, NoValue, c.attached,
           [i \in DOMAIN c.called |-> [fn |-> "register_configuration", args |-> c.called[i]]])

\* register_configurations after _ensure_loaded_ left state e.
ConfigureAll(e) ==
    IF e.raised # None
    THEN Result(e, e.raised, NoEntry, NoValue, <<>>, <<>>)
    ELSE Configured(e, RegisterEach(e.entries, 1, {}, <<>>))

\* Registry.register_configurations(subparser), subparser a fresh group.
RegisterConfigurations(r, ns, st) == ConfigureAll(EnsureLoaded(r, ns, st))

\* The sub-commands the parser has after register_configurations attached
\* the configs of the ids in attached.
SubCommands(d, attached) ==
    { ParserId(GetItem(d, attached[i]).config) : i \in DOMAIN attached }

\* The try statement of parcus_entry_point around dispatch (outcome d):
\* `except Exception` logs the error at critical level, and the function
\* returns None either way.
Guarded(d) ==
    [res    |-> Result(d.st, None, NoEntry, NoValue, d.retList, d.calls),
     logged |-> d.raised]

\* parcus_entry_point after parse_parcus_arguments returned or raised (p),
\* with parcus_command = cmd parsed from the command line.
EntryPoint(r, ns, cmd, a, p) ==
    IF p.raised # None
    THEN [res |-> p, logged |-> None]
    ELSE Guarded(Dispatch(r, ns, cmd, a, p.st))

\* ------------------------------------------------------------ state machine
NoKw == [config |-> Omitted, payload |-> Omitted, tags |-> Omitted]

\* The ids registered by explicit register calls and decorator applications
\* made on the loaded registry, after operation op on id raised or returned.
LateIds(op, id, raised) ==
    IF op \in {"register", "decorate"} /\ loaded[self] /\ raised = None
    THEN last.late \cup {id} ELSE last.late

\* The record kept of an operation: its inputs, its outcome, and the
\* registry's fields when it was called.
LastOf(op, id, kw, a, filter, res) ==
    [op |-> op, id |-> id, kw |-> kw, args |-> a, filter |-> filter,
     raised |-> res.raised, retEntry |-> res.retEntry, retVal |-> res.retVal,
     retList |-> res.retList, retLen |-> -1, calls |-> res.calls,
     pre |-> entries[self], preLoaded |-> loaded[self],
     preSweeps |-> sweeps[self], preCount |-> importCount[self],
     swept |-> res.st.swept, visited |-> res.st.visited,
     late |-> LateIds(op, id, res.raised), retObj |-> None,
     preParsers |-> {}, parsers |-> {}, logged |-> None]

\* The three registries keeping their entries in one shared dictionary.
Commit_Shared(r, res) ==
    /\ entries'     = [q \in Registries |-> res.st.entries]
    /\ loaded'      = [loaded EXCEPT ![r] = res.st.loaded]
    /\ sysModules'  = res.st.sysModules
    /\ importCount' = [importCount EXCEPT ![r] = res.st.importCount]
    /\ sweeps'      = [sweeps EXCEPT ![r] = res.st.sweeps]
    /\ nextOid'     = res.st.nextOid
    /\ UNCHANGED <<self, namespace, pc>>

\* The fields of registry r and of the interpreter as state st has them.
Store(r, st) ==
    /\ entries'     = [entries EXCEPT ![r] = st.entries]
    /\ loaded'      = [loaded EXCEPT ![r] = st.loaded]
    /\ sysModules'  = st.sysModules
    /\ importCount' = [importCount EXCEPT ![r] = st.importCount]
    /\ sweeps'      = [sweeps EXCEPT ![r] = st.sweeps]
    /\ nextOid'     = st.nextOid
    /\ UNCHANGED <<self, namespace>>

\* The effect of an operation that one thread runs from call to return.
Commit(r, res) == Store(r, res.st) /\ UNCHANGED pc

\* A first use may start a sweep; the number of sweeps is bounded.
MayTrigger(r) == loaded[r] \/ sweeps[r] < MaxSweeps

EmptyNamespace == [root |-> None, modules |-> <<>>]

\* The threads of a multi-threaded host, and a thread that is in no call.
Threads == {1, 2}
IdlePc  == [at |-> "idle", op |-> "", id |-> "", kw |-> NoKw, raised |-> None,
            calls |-> 0]

InitFrom(packages) ==
    /\ self \in Registries
    /\ entries = [r \in Registries |-> <<>>]
    /\ loaded = [r \in Registries |-> FALSE]
    /\ \E ns \in packages :
         namespace = [r \in Registries |-> IF r = self THEN ns ELSE EmptyNamespace]
    /\ sysModules = {}
    /\ importCount = [r \in Registries |-> [k \in 1..MaxModules |-> 0]]
    /\ sweeps = [r \in Registries |-> 0]
    /\ nextOid = 1
    /\ pc = [t \in Threads |-> IdlePc]
    /\ last = [op |-> "init", id |-> "", kw |-> NoKw, args |-> None, filter |-> <<>>,
               raised |-> None, retEntry |-> NoEntry, retVal |-> NoValue,
               retList |-> <<>>, retLen |-> -1, calls |-> <<>>, pre |-> <<>>, preLoaded |-> FALSE,
               preSweeps |-> 0, preCount |-> [k \in 1..MaxModules |-> 0],
               swept |-> FALSE, visited |-> {}, late |-> {}, retObj |-> None,
               preParsers |-> {}, parsers |-> {}, logged |-> None]

Init == InitFrom(Namespaces)

\* register that also marks the registry loaded.
Registered_Marks(st, rr) ==
    Result([st EXCEPT !.entries = rr.entries, !.nextOid = rr.nextOid, !.loaded = TRUE],
           rr.raised, NoEntry, NoValue, <<>>, <<>>)

\* The outcome rr of register as a result.
Registered(st, rr) ==
    Result([st EXCEPT !.entries = rr.entries, !.nextOid = rr.nextOid],
           rr.raised, NoEntry, NoValue, <<>>, <<>>)

\* registry.register(id, **kw) on the registry self.
RegisterCall(id, kw) ==
    \E res \in { Registered(Bundle(self),
                              RegisterResult(entries[self], self, id, kw, nextOid)) } :
        /\ Commit(self, res)
        /\ last' = LastOf("register", id, kw, None, <<>>, res)

DoRegister ==
    \E id \in Ids, kw \in ExplicitKwargs : RegisterCall(id, kw)

\* The decorators as user code applies them: (id, config) with the function
\* or class they are put on, each id with the config and the payload of its
\* own.
DecoratorArgs(id) ==
    IF id = IdSeq[1] THEN [config |-> "c1", payload |-> "f", tags |-> Omitted]
                     ELSE [config |-> "c2", payload |-> "g", tags |-> Omitted]

\* A decorator that hands back a wrapper in place of what it was applied to.
Decorate_Wrapped(kw, res) ==
    IF res.raised # None THEN None ELSE "wrapper"

\* The decorator's return statement: the function or class itself, reached
\* when register did not raise.
Decorate(kw, res) ==
    IF res.raised # None THEN None ELSE kw.payload

\* register_command(id, config)(entry_point), register_dataset(id, config)(cls)
\* and register_model(id, config)(cls), on the registry of their kind.
DoDecorate ==
    \E id \in Ids :
      \E kw \in { DecoratorArgs(id) } :
        \E res \in { Registered(Bundle(self),
                                  RegisterResult(entries[self], self, id, kw, nextOid)) } :
            /\ Commit(self, res)
            /\ last' = [LastOf("decorate", id, kw, None, <<>>, res)
                            EXCEPT !.retObj = Decorate(kw, res)]

DoGetEntry ==
    /\ MayTrigger(self)
    /\ \E id \in Ids :
        \E res \in { GetEntry(self, namespace[self], id, Bundle(self)) } :
            /\ Commit(self, res)
            /\ last' = LastOf("get_entry", id, NoKw, None, <<>>, res)

DoListEntries ==
    /\ MayTrigger(self)
    /\ \E filter \in { <<>>, <<"t">> } :
        \E res \in { ListEntries(self, namespace[self], filter, Bundle(self)) } :
            /\ Commit(self, res)
            /\ last' = LastOf("list_entries", "", NoKw, None, filter, res)

DoRegisterConfigurations ==
    /\ MayTrigger(self)
    /\ \E res \in { RegisterConfigurations(self, namespace[self], Bundle(self)) } :
           /\ Commit(self, res)
           /\ last' = LastOf("register_configurations", "", NoKw, None, <<>>, res)

DoDispatch ==
    /\ self = "commands"
    /\ MayTrigger(self)
    /\ \E id \in Ids, a \in ArgVals :
        \E res \in { Dispatch(self, namespace[self], id, a, Bundle(self)) } :
            /\ Commit(self, res)
            /\ last' = LastOf("dispatch", id, NoKw, a, <<>>, res)

DoLoadDataset ==
    /\ self = "datasets"
    /\ MayTrigger(self)
    /\ \E id \in Ids, a \in ArgVals :
        \E res \in { LoadDataset(self, namespace[self], id, a, Bundle(self)) } :
            /\ Commit(self, res)
            /\ last' = LastOf("load_dataset", id, NoKw, a, <<>>, res)

DoLoadModel ==
    /\ self = "models"
    /\ MayTrigger(self)
    /\ \E id \in Ids, a \in ArgVals :
        \E res \in { LoadModel(self, namespace[self], id, a, Bundle(self)) } :
            /\ Commit(self, res)
            /\ last' = LastOf("load_model", id, NoKw, a, <<>>, res)

\* The parser groups an entry is asked to register under: a fresh one and one
\* that has a sub-command already.
ParserGroups == { {}, {ParserId("c1")} }

\* Entry.register_configuration(subparser) on a stored entry.
DoRegisterConfiguration ==
    \E i \in DOMAIN entries[self], names \in ParserGroups :
        \E c \in { RegisterConfiguration(entries[self][i].entry, names) } :
            \E res \in { Result(Bundle(self), c.raised, NoEntry, NoValue, <<>>,
                                c.delegated) } :
                /\ Commit(self, res)
                /\ last' = [LastOf("register_configuration", entries[self][i].key,
                                   NoKw, None, <<>>, res)
                                EXCEPT !.preParsers = names, !.parsers = c.names]

\* parcus_entry_point(*args): parse_parcus_arguments builds the parser with
\* COMMAND_REGISTRY.register_configurations and parses the command line, whose
\* sub-command, if any, is one the parser has; the command is then
\* dispatched with the parsed arguments.
DoEntryPoint ==
    /\ self = "commands"
    /\ MayTrigger(self)
    /\ \E cmd \in Ids \cup {None} :
        \E p \in { RegisterConfigurations(self, namespace[self], Bundle(self)) } :
            /\ cmd # None => /\ p.raised = None
                             /\ cmd \in SubCommands(p.st.entries, p.retList)
            /\ \E o \in { EntryPoint(self, namespace[self], cmd, "a1", p) } :
                   /\ Commit(self, o.res)
                   /\ last' = [LastOf("parcus_entry_point", cmd, NoKw, "a1", <<>>, o.res)
                                   EXCEPT !.logged = o.logged]

\* The entries property handing out the registry's own dictionary.
EntriesProperty_Alias(d) == [alias |-> TRUE, items |-> d]

\* Registry.entries: self._entries_.copy(), a new dictionary with the same
\* keys and the same entry objects.
EntriesProperty(d) == [alias |-> FALSE, items |-> d]

\* What the caller does to the mapping it was given: it deletes the first
\* key, if there is one, and adds a key of its own.
Modified(items) ==
    Append(IF items = <<>> THEN <<>> ELSE Tail(items), [key |-> "x", entry |-> NoEntry])

\* The registry's dictionary after the caller modified the mapping snap.
AfterModification(d, snap) == IF snap.alias THEN Modified(snap.items) ELSE d

\* registry.entries, followed by the caller's modification of the result.
DoEntries ==
    \E snap \in { EntriesProperty(entries[self]) } :
        \E res \in { Result([Bundle(self) EXCEPT
                                 !.entries = AfterModification(entries[self], snap)],
                            None, NoEntry, NoValue,
                            [i \in DOMAIN snap.items |-> snap.items[i].key], <<>>) } :
            /\ Commit(self, res)
            /\ last' = LastOf("entries", "", NoKw, None, <<>>, res)

\* Registry.__contains__(entry_id)
DoContains ==
    \E id \in Ids :
        \E res \in { Result(Bundle(self), None, NoEntry,
                          [fn |-> None, args |-> IF Contains(entries[self], id)
                                                THEN "True" ELSE "False"],
                          <<>>, <<>>) } :
            /\ Commit(self, res)
            /\ last' = LastOf("contains", id, NoKw, None, <<>>, res)

\* Registry.__len__()
DoLen ==
    \E res \in { Result(Bundle(self), None, NoEntry, NoValue, <<>>, <<>>) } :
        /\ Commit(self, res)
        /\ last' = [LastOf("len", "", NoKw, None, <<>>, res)
                        EXCEPT !.retLen = Len(entries[self])]

Next ==
    \/ DoRegister
    \/ DoDecorate
    \/ DoGetEntry
    \/ DoListEntries
    \/ DoRegisterConfigurations
    \/ DoRegisterConfiguration
    \/ DoEntryPoint
    \/ DoDispatch
    \/ DoLoadDataset
    \/ DoLoadModel
    \/ DoEntries
    \/ DoContains
    \/ DoLen

Spec == Init /\ [][Next]_vars

\* ------------------------------------------------- the three stores together
\* The caller turns to another of the three registries.
DoUse ==
    /\ \E r \in Registries \ {self} : self' = r
    /\ UNCHANGED <<entries, loaded, namespace, sysModules, importCount, sweeps,
                   nextOid, last, pc>>

\* Ids as callers may pass them, the empty string among them.
StoreIds == {"", IdSeq[1]}

\* register with a config and a payload, on whichever registry is in use.
DoRegisterStore ==
    /\ nextOid <= MaxStoreEntries
    /\ \E id \in StoreIds :
          RegisterCall(id, [config |-> "c1", payload |-> "f", tags |-> Omitted])

\* The registries with nothing to discover: every entry is an explicit one.
InitStores ==
    /\ Init
    /\ namespace = [r \in Registries |-> EmptyNamespace]

NextStores ==
    \/ DoUse
    \/ DoRegisterStore
    \/ DoListEntries
    \/ DoContains
    \/ DoLen

SpecStores == InitStores /\ [][NextStores]_vars

TypeOK ==
    /\ self \in Registries
    /\ loaded \in [Registries -> BOOLEAN]
    /\ nextOid \in 1..(Cardinality(Ids) + 1)

\* ------------------------------------- modules that use their own registry
\* Modules of which some call list_entries() on the registry of their own
\* package while they are imported.
UsingBodies ==
    { <<"reg">>, <<"use">>, <<"reg", "use">>, <<"use", "reg">>,
      <<"use", "ImportError">>, <<"ImportError">> }

UsingNamespaces ==
    { [root |-> None, modules |-> ms] :
        ms \in { q \in SeqsUpTo([body : UsingBodies, ispkg : {FALSE}], MaxModules) :
                    \E i \in DOMAIN q : \E j \in DOMAIN q[i].body :
                        q[i].body[j] = "use" } }

InitUsing == InitFrom(UsingNamespaces)

NextUsing ==
    \/ DoRegister
    \/ DoGetEntry
    \/ DoListEntries
    \/ DoRegisterConfigurations
    \/ DoLen

SpecUsing == InitUsing /\ [][NextUsing]_vars

\* ------------------------------------------------- two threads, by statement
\* The arguments thread t registers with.
ThreadKwargs(t) ==
    IF t = 1 THEN [config |-> "c1", payload |-> "f", tags |-> Omitted]
             ELSE [config |-> "c2", payload |-> "g", tags |-> Omitted]

\* The calls the two threads have made so far.
CallsMade == pc[1].calls + pc[2].calls

\* A sweep of the registry is under way in a thread other than t.
Sweeping(t) == \E u \in Threads \ {t} : pc[u].at \in {"load_all", "mark"}

\* Thread t calls register(id, **kw).
TCallRegister(t) ==
    /\ pc[t].at = "idle"
    /\ CallsMade < MaxCalls
    /\ \E id \in Ids :
          pc' = [pc EXCEPT ![t] = [at |-> "check", op |-> "register", id |-> id,
                                   kw |-> ThreadKwargs(t), raised |-> None,
                                   calls |-> @.calls + 1]]
    /\ UNCHANGED <<self, entries, loaded, namespace, sysModules, importCount, sweeps,
                   nextOid, last>>

\* register, lines 129-132: the duplicate check.
TCheckDuplicate(t) ==
    /\ pc[t].at = "check"
    /\ pc' = [pc EXCEPT ![t] =
                 IF Contains(entries[self], pc[t].id)
                 THEN [@ EXCEPT !.at = "idle", !.raised = "DuplicateEntryError"]
                 ELSE [@ EXCEPT !.at = "insert"]]
    /\ UNCHANGED <<self, entries, loaded, namespace, sysModules, importCount, sweeps,
                   nextOid, last>>

\* register, line 138: the entry is created and stored.
TStoreEntry(t) ==
    /\ pc[t].at = "insert"
    /\ \E rr \in { StoreEntry(entries[self], self, pc[t].id, pc[t].kw, nextOid) } :
          /\ Store(self, [Bundle(self) EXCEPT !.entries = rr.entries,
                                              !.nextOid = rr.nextOid])
          /\ pc' = [pc EXCEPT ![t] = [@ EXCEPT !.at = "idle", !.raised = rr.raised]]
    /\ UNCHANGED last

\* Thread t calls get_entry(id).
TCallGetEntry(t) ==
    /\ pc[t].at = "idle"
    /\ CallsMade < MaxCalls
    /\ \E id \in Ids :
          pc' = [pc EXCEPT ![t] = [at |-> "ensure", op |-> "get_entry", id |-> id,
                                   kw |-> NoKw, raised |-> None,
                                   calls |-> @.calls + 1]]
    /\ UNCHANGED <<self, entries, loaded, namespace, sysModules, importCount, sweeps,
                   nextOid, last>>

\* _ensure_loaded_, line 176: the test of _loaded_, and the call of
\* _load_all_ when it is false.
TEnsureLoaded(t) ==
    /\ pc[t].at = "ensure"
    /\ IF ShouldLoad(loaded[self], Sweeping(t))
       THEN /\ pc' = [pc EXCEPT ![t] = [@ EXCEPT !.at = "load_all"]]
            /\ sweeps' = [sweeps EXCEPT ![self] = @ + 1]
       ELSE /\ pc' = [pc EXCEPT ![t] = [@ EXCEPT !.at = "lookup"]]
            /\ UNCHANGED sweeps
    /\ UNCHANGED <<self, entries, loaded, namespace, sysModules, importCount,
                   nextOid, last>>

\* _load_all_, line 223: the modules are imported.
TImportAll(t) ==
    /\ pc[t].at = "load_all"
    /\ \E w \in { ImportAllModules(self, namespace[self], Bundle(self)) } :
          /\ Store(self, w)
          /\ pc' = [pc EXCEPT ![t] =
                       IF w.raised # None
                       THEN [@ EXCEPT !.at = "idle", !.raised = w.raised]
                       ELSE [@ EXCEPT !.at = "mark"]]
    /\ UNCHANGED last

\* _load_all_, line 229: _loaded_ = True.
TMarkLoaded(t) ==
    /\ pc[t].at = "mark"
    /\ loaded' = [loaded EXCEPT ![self] = TRUE]
    /\ pc' = [pc EXCEPT ![t] = [@ EXCEPT !.at = "lookup"]]
    /\ UNCHANGED <<self, entries, namespace, sysModules, importCount, sweeps,
                   nextOid, last>>

\* get_entry, lines 74-83: the membership test and the return.
TLookup(t) ==
    /\ pc[t].at = "lookup"
    /\ pc' = [pc EXCEPT ![t] =
                 IF Contains(entries[self], pc[t].id)
                 THEN [@ EXCEPT !.at = "idle"]
                 ELSE [@ EXCEPT !.at = "idle", !.raised = "EntryNotFoundError"]]
    /\ UNCHANGED <<self, entries, loaded, namespace, sysModules, importCount, sweeps,
                   nextOid, last>>

NextThreads ==
    \E t \in Threads :
        \/ TCallRegister(t)
        \/ TCheckDuplicate(t)
        \/ TStoreEntry(t)
        \/ TCallGetEntry(t)
        \/ TEnsureLoaded(t)
        \/ TImportAll(t)
        \/ TMarkLoaded(t)
        \/ TLookup(t)

SpecThreads == Init /\ [][NextThreads]_vars

\* ------------------------------------------------------------------ claims
IsPrefix(p, q) == Len(p) <= Len(q) /\ \A i \in DOMAIN p : q[i] = p[i]

TriggerOps == {"get_entry", "list_entries", "register_configurations",
               "dispatch", "load_dataset", "load_model"}

\* C1: register(id, ...) on an id that is already present raises
\* DuplicateEntryError and leaves the dictionary as it was: one entry for id,
\* the one of the first registration, and the same number of entries.
C1_DuplicateRegisterRejected ==
    (last.op = "register" /\ Contains(last.pre, last.id)) =>
        /\ last.raised = "DuplicateEntryError"
        /\ Cardinality({ i \in DOMAIN entries[self] : entries[self][i].key = last.id }) = 1
        /\ GetItem(entries[self], last.id) = GetItem(last.pre, last.id)
        /\ Len(entries[self]) = Len(last.pre)
        /\ entries[self] = last.pre

\* A second registration of an id, with another config and payload, was refused.
C1_Witness ==
    /\ last.op = "register"
    /\ last.raised = "DuplicateEntryError"
    /\ BindsKwargs(last.kw)
    /\ last.kw.config # GetItem(entries[self], last.id).config
    /\ last.kw.payload # GetItem(entries[self], last.id).payload

\* C2: get_entry(id) raises EntryNotFoundError when id is not registered and
\* returns the stored entry itself (the same object) when it is.
C2_GetEntryTotal ==
    last.op = "get_entry" =>
        IF Contains(entries[self], last.id)
        THEN last.raised = None /\ last.retEntry = GetItem(entries[self], last.id)
        ELSE last.raised = "EntryNotFoundError"

\* C3: dispatch on a registered command that has an entry point calls that
\* entry point once with the forwarded arguments, calls nothing else, and
\* returns what it returns or raises what it raises.
C3_DispatchContract ==
    (/\ last.op = "dispatch"
     /\ Contains(entries[self], last.id)
     /\ GetItem(entries[self], last.id).payload # None) =>
        LET fn == GetItem(entries[self], last.id).payload
        IN  /\ last.calls = << [fn |-> fn, args |-> last.args] >>
            /\ last.raised = CallableRaises(fn)
            /\ last.raised = None => last.retVal = [fn |-> fn, args |-> last.args]

\* C4: dispatch on a command registered without an entry point raises
\* EntryPointNotConfiguredError, calls nothing, and changes no entry (the
\* entries present before the call are the dictionary's, or its first ones
\* when the call made the sweep).
C4_DispatchWithoutEntryPoint ==
    (/\ last.op = "dispatch"
     /\ Contains(entries[self], last.id)
     /\ GetItem(entries[self], last.id).payload = None) =>
        /\ last.raised = "EntryPointNotConfiguredError"
        /\ last.calls = <<>>
        /\ IsPrefix(last.pre, entries[self])
        /\ ~last.swept => entries[self] = last.pre

\* C5: dispatch, load_dataset and load_model on an id that is not registered,
\* the discovery sweep included, raise EntryNotFoundError and call no entry
\* point and no class.
C5_UnknownIdNotFound ==
    (/\ last.op \in {"dispatch", "load_dataset", "load_model"}
     /\ ~Contains(entries[self], last.id)) =>
        /\ last.raised = "EntryNotFoundError"
        /\ last.calls = <<>>
        /\ last.retVal = NoValue

\* C6: loading a registered dataset or model constructs the registered class
\* once with the forwarded arguments and returns the instance; what the
\* constructor raises propagates, and no entry is changed.
C6_LoadContract ==
    (/\ last.op \in {"load_dataset", "load_model"}
     /\ Contains(entries[self], last.id)
     /\ GetItem(entries[self], last.id).payload # None) =>
        LET cls == GetItem(entries[self], last.id).payload
        IN  /\ last.calls = << [fn |-> cls, args |-> last.args] >>
            /\ last.raised = CallableRaises(cls)
            /\ last.raised = None => last.retVal = [fn |-> cls, args |-> last.args]
            /\ IsPrefix(last.pre, entries[self])
            /\ ~last.swept => entries[self] = last.pre

\* C7: the discovery sweep is made at most once and every module of the
\* package is executed at most once; on a loaded registry no operation
\* sweeps, and none but register changes the entries.
C7_SweepAtMostOnce ==
    /\ sweeps[self] <= 1
    /\ \A k \in DOMAIN importCount[self] : importCount[self][k] <= 1
    /\ last.preLoaded => /\ ~last.swept
                         /\ loaded[self]
                         /\ last.op # "register" => entries[self] = last.pre

\* C8: is_loaded is false at construction and no step sets it back from true
\* to false.
C8_LoadedMonotonic ==
    /\ \A r \in Registries : ~loaded[r]
    /\ [][\A r \in Registries : loaded[r] => loaded'[r]]_vars

\* An operation ran on a registry that was already loaded.
C8_Witness ==
    /\ last.preLoaded
    /\ loaded[self]
    /\ last.op \in {"register", "get_entry", "contains", "len"}

\* C9: the first triggering operation on an unloaded registry leaves it
\* loaded, whether it returns or raises; on an empty registry with an empty
\* package list_entries() returns the empty sequence.
C9_FirstUseLoads ==
    /\ (last.op \in TriggerOps /\ ~last.preLoaded) => loaded[self]
    /\ (/\ last.op = "list_entries"
        /\ last.pre = <<>>
        /\ namespace[self] = EmptyNamespace) =>
            last.raised = None /\ last.retList = <<>> /\ loaded[self]

\* C10: when a module of the package fails at import, the sweep still visits
\* every module, keeps what the modules that import well register, does not
\* raise, and the registry is loaded.
C10_SweepToleratesFailure ==
    (last.swept /\ namespace[self].root = None) =>
        /\ loaded[self]
        /\ last.raised \notin {"Exception", "ImportError", "DuplicateEntryError"}
        /\ last.visited = DOMAIN namespace[self].modules
        /\ \A k \in DOMAIN namespace[self].modules :
              <<self, k>> \in sysModules => Contains(entries[self], ModuleId(k))

\* C11: list_entries(filter) returns, each once, exactly the ids of the
\* registered entries that carry every tag of filter, and all registered ids
\* when filter is empty; it changes no entry of the registry (the entries
\* present before the call are the dictionary's, or its first ones when the
\* call made the sweep).
C11_ListEntriesFilter ==
    last.op = "list_entries" =>
        LET listed == { last.retList[i] : i \in DOMAIN last.retList }
        IN  /\ last.raised = None
            /\ listed = { k \in Keys(entries[self]) :
                            HasAllTags(GetItem(entries[self], k), last.filter) }
            /\ Cardinality(listed) = Len(last.retList)
            /\ last.filter = <<>> => listed = Keys(entries[self])
            /\ IsPrefix(last.pre, entries[self])
            /\ ~last.swept => entries[self] = last.pre

\* The tag collection a register call supplies.
SuppliedTags(kw) == IF kw.tags = Omitted THEN {} ELSE {kw.tags}

\* C12: a registration of a new id with config, payload and a tag collection
\* T is accepted, and the stored entry's has_tag(t) is true exactly for the
\* tags t of T.
C12_TagsRetained ==
    (/\ last.op = "register"
     /\ ~Contains(last.pre, last.id)
     /\ last.kw.config # Omitted
     /\ last.kw.payload # Omitted) =>
        /\ last.raised = None
        /\ Contains(entries[self], last.id)
        /\ \A t \in Tags :
              HasTag(GetItem(entries[self], last.id), t) <=> t \in SuppliedTags(last.kw)

\* C13: register of an id that is not present, with the keywords the entry
\* constructor takes, succeeds whether or not the registry is loaded and
\* appends the new entry; no register call sweeps, imports a module or
\* changes is_loaded; and an id registered on the loaded registry is in the
\* dictionary ever after: get_entry returns its entry, list_entries() lists
\* it, membership is true and the length counts it.
C13_RegisterAnyState ==
    /\ (/\ last.op = "register"
        /\ ~Contains(last.pre, last.id)
        /\ BindsKwargs(last.kw)) =>
            /\ last.raised = None
            /\ Contains(entries[self], last.id)
            /\ entries[self] = Append(last.pre, [key   |-> last.id,
                                                 entry |-> GetItem(entries[self], last.id)])
    /\ last.op = "register" =>
            /\ ~last.swept
            /\ sweeps[self] = last.preSweeps
            /\ importCount[self] = last.preCount
            /\ loaded[self] = last.preLoaded
    /\ \A id \in last.late :
            /\ Contains(entries[self], id)
            /\ (last.op = "get_entry" /\ last.id = id) =>
                    last.raised = None /\ last.retEntry = GetItem(entries[self], id)
            /\ (last.op = "list_entries" /\ last.filter = <<>>) =>
                    last.raised = None /\ \E i \in DOMAIN last.retList : last.retList[i] = id
            /\ (last.op = "contains" /\ last.id = id) => last.retVal.args = "True"
            /\ last.op = "len" =>
                    last.retLen = Len(entries[self]) /\ last.retLen >= Cardinality(last.late)

\* list_entries() on a registry whose sweep registered one id and on which a
\* second id was registered afterwards lists both.
C13_Witness ==
    /\ last.op = "list_entries"
    /\ last.filter = <<>>
    /\ Cardinality(last.late) = 1
    /\ sweeps[self] = 1
    /\ Len(last.retList) = 2
    /\ \E k \in DOMAIN namespace[self].modules : <<self, k>> \in sysModules

\* C14: a decorator applied with (id, config) to a function or class adds,
\* when id is new, one entry under id whose payload is that function or class
\* and whose config is config, and returns the function or class itself; when
\* id is already registered it raises DuplicateEntryError and the registry is
\* as it was.  It neither sweeps nor changes is_loaded.
C14_DecoratorRegisters ==
    last.op = "decorate" =>
        /\ IF Contains(last.pre, last.id)
           THEN /\ last.raised = "DuplicateEntryError"
                /\ entries[self] = last.pre
           ELSE /\ last.raised = None
                /\ last.retObj = last.kw.payload
                /\ Len(entries[self]) = Len(last.pre) + 1
                /\ IsPrefix(last.pre, entries[self])
                /\ Contains(entries[self], last.id)
                /\ GetItem(entries[self], last.id).id = last.id
                /\ GetItem(entries[self], last.id).payload = last.kw.payload
                /\ GetItem(entries[self], last.id).config = last.kw.config
        /\ ~last.swept
        /\ loaded[self] = last.preLoaded

\* A class was registered by its decorator next to an entry already there.
C14_Witness ==
    /\ last.op = "decorate"
    /\ self = "datasets"
    /\ last.raised = None
    /\ Len(last.pre) = 1
    /\ last.retObj = "g"
    /\ GetItem(entries[self], last.id).payload = "g"

\* C15: register_configurations leaves the registry loaded, calls
\* register_configuration once on each entry of the registry, in the
\* dictionary's order, and on nothing else, and changes no entry (the entries
\* present before the call are the dictionary's, or its first ones when the
\* call made the sweep).
C15_ConfiguresEveryEntry ==
    last.op = "register_configurations" =>
        /\ loaded[self]
        /\ last.calls = [i \in DOMAIN entries[self] |->
                            [fn |-> "register_configuration", args |-> entries[self][i].key]]
        /\ IsPrefix(last.pre, entries[self])
        /\ ~last.swept => entries[self] = last.pre

\* C16: register_configuration on an entry without a config raises
\* ParserNotConfiguredError, delegates to nothing and leaves the parser group
\* as it was; on an entry with a config it delegates once to that config's
\* register, whose parser is added to the group when it returns.  No entry
\* is changed.
C16_ConfigurationNotAttached ==
    last.op = "register_configuration" =>
        LET entry == GetItem(entries[self], last.id)
        IN  /\ entries[self] = last.pre
            /\ IF entry.config = None
               THEN /\ last.raised = "ParserNotConfiguredError"
                    /\ last.calls = <<>>
                    /\ last.parsers = last.preParsers
               ELSE /\ last.calls = << [fn |-> "Config.register", args |-> entry.config] >>
                    /\ last.raised \in {None, "ArgumentError"}
                    /\ last.raised = None =>
                           last.parsers = last.preParsers \cup {ParserId(entry.config)}

\* An entry registered with config None was asked to register under a group
\* that has a parser, and refused.
C16_Witness ==
    /\ last.op = "register_configuration"
    /\ GetItem(entries[self], last.id).config = None
    /\ last.raised = "ParserNotConfiguredError"
    /\ last.preParsers # {}
    /\ last.parsers = last.preParsers

\* C17: no error raised while parcus_entry_point runs reaches its caller:
\* whatever is raised while the parsers are built, during the sweep or during
\* dispatch is caught and logged at critical level.
C17_EntryPointCatchesAll ==
    last.op = "parcus_entry_point" => last.raised = None

\* Module k of the package is the one whose decorator registered ModuleId(k)
\* during the last operation's sweep: the id is new, k has a decorated
\* definition and no earlier module uses the id.
RegisteredBy(k) ==
    /\ k \in last.visited
    /\ \E i \in DOMAIN namespace[self].modules[k].body :
          namespace[self].modules[k].body[i] = "reg"
    /\ \A j \in 1..(k - 1) : ModuleId(j) # ModuleId(k)
    /\ Contains(entries[self], ModuleId(k))
    /\ ~Contains(last.pre, ModuleId(k))

\* C18: after a sweep, a module whose import failed has left no entry in the
\* registry, and a module whose import succeeded has left its entry: all of
\* a module's registrations or none.
C18_FailedModuleLeavesNothing ==
    last.swept =>
        \A k \in DOMAIN namespace[self].modules :
            /\ (k \in last.visited /\ <<self, k>> \notin sysModules) => ~RegisteredBy(k)
            /\ (k \in last.visited /\ <<self, k>> \in sysModules) =>
                    Contains(entries[self], ModuleId(k))

\* C19: an id once registered stays registered and keeps its entry: every
\* step leaves each entry of every registry where it is, the same object with
\* the same id, payload, config and tags, so the dictionary only grows at its
\* end and the set of registered ids only grows.
C19_EntriesOnlyGrow ==
    [][\A r \in Registries : IsPrefix(entries[r], entries'[r])]_vars

\* A second id was registered and the first is still there with its entry,
\* after a sweep that registered an id already taken was attempted.
C19_Witness ==
    /\ last.op \in {"register", "decorate"}
    /\ last.raised = None
    /\ Len(last.pre) = 1
    /\ Len(entries[self]) = 2
    /\ entries[self][1] = last.pre[1]
    /\ sweeps[self] >= 1

\* C20: EntryNotFoundError comes out of get_entry, dispatch, load_dataset and
\* load_model only when the registry is loaded, that is when its sweep has
\* been made and has completed.
C20_NotFoundOnlyWhenLoaded ==
    (/\ last.op \in {"get_entry", "dispatch", "load_dataset", "load_model"}
     /\ last.raised = "EntryNotFoundError") =>
        /\ loaded[self]
        /\ sweeps[self] >= 1
        /\ ~Contains(entries[self], last.id)

\* The first lookup on an unloaded registry made the sweep, which imported a
\* module, and then reported another id as missing.
C20_Witness ==
    /\ last.op \in {"get_entry", "dispatch", "load_dataset", "load_model"}
    /\ last.raised = "EntryNotFoundError"
    /\ ~last.preLoaded
    /\ last.swept
    /\ entries[self] # <<>>
    /\ sysModules # {}

\* C21: the ids list_entries returns stand in the order of registration (the
\* dictionary's order, in which the entries were created one after the
\* other), so a filtered result is a subsequence of the unfiltered one; and
\* a call that follows a call with the same filter returns the same
\* sequence.
C21_ListOrderStable ==
    /\ [](/\ \A i, j \in DOMAIN entries[self] :
                i < j => entries[self][i].entry.oid < entries[self][j].entry.oid
          /\ (last.op = "list_entries" /\ last.raised = None) =>
                /\ \A i \in DOMAIN last.retList : Contains(entries[self], last.retList[i])
                /\ \A i, j \in DOMAIN last.retList :
                      i < j => IndexOf(entries[self], last.retList[i])
                                  < IndexOf(entries[self], last.retList[j]))
    /\ [][(/\ last.op = "list_entries"
           /\ last.raised = None
           /\ last'.op = "list_entries"
           /\ last'.filter = last.filter) =>
                (last'.raised = None /\ last'.retList = last.retList)]_vars

\* list_entries() returned the id registered by hand before the id that the
\* sweep registered after it.
C21_Witness ==
    /\ last.op = "list_entries"
    /\ last.raised = None
    /\ last.swept
    /\ last.retList = <<IdSeq[2], IdSeq[1]>>
    /\ Len(last.pre) = 1

C27_ConfigurationFailureNoRollback ==
    (/\ last.op = "register_configurations"
     /\ last.raised \in {"ParserNotConfiguredError", "ArgumentError"}) =>
        LET n == Len(last.retList)
        IN  /\ n < Len(entries[self])
            /\ last.retList = [i \in 1..n |-> entries[self][i].key]
            /\ last.calls = [i \in 1..(n + 1) |->
                                [fn |-> "register_configuration", args |-> entries[self][i].key]]
            /\ IF last.raised = "ParserNotConfiguredError"
               THEN entries[self][n + 1].entry.config = None
               ELSE ParserId(entries[self][n + 1].entry.config)
                        \in SubCommands(entries[self], last.retList)
            /\ loaded[self]
            /\ IsPrefix(last.pre, entries[self])
            /\ ~last.swept => entries[self] = last.pre

\* The second of two entries had no config: the first was attached, the call
\* raised.
C27_Witness ==
    /\ last.op = "register_configurations"
    /\ last.raised = "ParserNotConfiguredError"
    /\ Len(entries[self]) = 2
    /\ last.retList = <<entries[self][1].key>>
    /\ last.swept

\* C30: in every state each key of a registry's dictionary is the id of the
\* entry stored under it, no key occurs twice, and len(registry) is the
\* number of distinct registered ids.
C30_KeysAreIds ==
    /\ \A r \in Registries :
          /\ \A i \in DOMAIN entries[r] : entries[r][i].entry.id = entries[r][i].key
          /\ Cardinality(Keys(entries[r])) = Len(entries[r])
    /\ last.op = "len" =>
          /\ last.raised = None
          /\ last.retLen = Cardinality(Keys(entries[self]))
          /\ last.retLen = Cardinality({ entries[self][i].entry.id : i \in DOMAIN entries[self] })

\* len of a registry with one entry made by a module and one made by register.
C30_Witness ==
    /\ last.op = "len"
    /\ last.retLen = 2
    /\ sysModules # {}
    /\ last.late # {}

\* C28: the membership test, len and the entries property make no sweep,
\* import nothing and leave the entries and is_loaded as they were; they
\* answer from the entries registered so far, also on an unloaded registry;
\* and modifying the mapping that entries returned does not change the
\* registry.
C28_QueriesDoNotLoad ==
    last.op \in {"contains", "len", "entries"} =>
        /\ last.raised = None
        /\ ~last.swept
        /\ sweeps[self] = last.preSweeps
        /\ importCount[self] = last.preCount
        /\ loaded[self] = last.preLoaded
        /\ entries[self] = last.pre
        /\ last.op = "contains" =>
              (last.retVal.args = "True" <=> Contains(last.pre, last.id))
        /\ last.op = "len" => last.retLen = Len(last.pre)
        /\ last.op = "entries" =>
              last.retList = [i \in DOMAIN last.pre |-> last.pre[i].key]

\* entries was read, and its result modified, on an unloaded registry that
\* has one entry and whose package has a module still to be imported.
C28_Witness ==
    /\ last.op = "entries"
    /\ ~loaded[self]
    /\ sweeps[self] = 0
    /\ Len(last.retList) = 1
    /\ entries[self] = last.pre
    /\ namespace[self].modules # <<>>

\* C22: register with the empty string as id is rejected and adds nothing to
\* the registry, and no entry has the empty id; an id that is not empty is
\* subject to no other validation.
C22_EmptyIdRejected ==
    /\ \A r \in Registries : \A i \in DOMAIN entries[r] : entries[r][i].entry.id # ""
    /\ (last.op = "register" /\ last.id = "") =>
          /\ last.raised # None
          /\ entries[self] = last.pre
    /\ (last.op = "register" /\ last.id # "" /\ ~Contains(last.pre, last.id)) =>
          last.raised = None

\* C29: an operation on one registry changes neither the entries nor
\* is_loaded of the other two, and register of an id raises
\* DuplicateEntryError only when the id is in the registry it is called on,
\* so that the same id can be registered once in each.
C29_IndependentStores ==
    /\ [](last.op = "register" =>
             (last.raised = "DuplicateEntryError" <=> Contains(last.pre, last.id)))
    /\ [][\A r \in Registries :
             (r # self \/ self' # self) =>
                 (entries'[r] = entries[r] /\ loaded'[r] = loaded[r])]_vars

\* The same id is registered in each of the three registries, of which one
\* is loaded and another is not.
C29_Witness ==
    /\ \A r \in Registries : Contains(entries[r], IdSeq[1])
    /\ \E r, q \in Registries : loaded[r] /\ ~loaded[q]
    /\ last.op = "register"
    /\ last.raised = None

\* C23: a thread that tests is_loaded while it is false starts a sweep,
\* also when the sweep another thread started is still under way; with two
\* threads making the first use together the sweep is so started twice.
C23_ConcurrentFirstUse ==
    /\ [](sweeps[self] >= Cardinality({ t \in Threads : pc[t].at \in {"load_all", "mark"} }))
    /\ [][\A t \in Threads :
             (pc[t].at = "ensure" /\ pc'[t].at # "ensure" /\ ~loaded[self]) =>
                 /\ pc'[t].at = "load_all"
                 /\ sweeps'[self] = sweeps[self] + 1]_vars

\* Both threads are inside _load_all_ at once: each saw is_loaded false, and
\* two sweeps have been started on the registry, which is not loaded yet.
C23_Witness ==
    /\ \A t \in Threads : pc[t].at \in {"load_all", "mark"} /\ pc[t].calls = 1
    /\ sweeps[self] = 2
    /\ ~loaded[self]

\* C24: the assignment at the end of register stores the new entry whether
\* or not the id has been registered since the duplicate check: a thread
\* that passed the check raises no DuplicateEntryError, and when the other
\* thread has inserted the id in between, its entry is replaced.
C24_ConcurrentRegister ==
    [][\A t \in Threads :
          (pc[t].at = "insert" /\ pc'[t].at = "idle") =>
              /\ pc'[t].raised = None
              /\ Contains(entries'[self], pc[t].id)
              /\ GetItem(entries'[self], pc[t].id).oid = nextOid
              /\ GetItem(entries'[self], pc[t].id).payload = pc[t].kw.payload
              /\ Len(entries'[self]) =
                    IF Contains(entries[self], pc[t].id) THEN Len(entries[self])
                                                          ELSE Len(entries[self]) + 1]_vars

\* Both threads registered the same id and neither raised: two entries were
\* created, the dictionary holds one, the later.
C24_Witness ==
    /\ \A t \in Threads :
          /\ pc[t].at = "idle"
          /\ pc[t].op = "register"
          /\ pc[t].calls = 1
          /\ pc[t].raised = None
          /\ pc[t].id = IdSeq[1]
    /\ Len(entries[self]) = 1
    /\ nextOid = 3
    /\ GetItem(entries[self], IdSeq[1]).oid = 2

\* C25: a registry never has two discovery sweeps in progress in one thread:
\* an operation starts at most one sweep, a triggering call made by a module
\* that the sweep imports starting none.
C25_NoNestedSweep ==
    [][sweeps'[self] <= sweeps[self] + 1]_vars

====
